---- MODULE Spec2Model ----
(***************************************************************************)
(* Model of cli_weather_api (src/src/main.rs): an interactive loop that    *)
(* loads an API key, prompts for a city and a country code, issues one     *)
(* blocking HTTP GET, prints the decoded response and asks whether to      *)
(* repeat.                                                                 *)
(*                                                                         *)
(* Strings read from standard input are sequences of one-character         *)
(* strings, so that trim() is computed character by character.  The        *)
(* description of a response is matched as a whole, so it is a TLA+        *)
(* string.  Emoji are written as their code points ("U+1F304").            *)
(* A temperature (f64) is an integer count of 1/TempScale degrees.         *)
(***************************************************************************)
EXTENDS Integers, Sequences, FiniteSets, TLC

VARIABLES
    pc,            \* position of main: "start", "city", "country", "fetch",
                   \* "match", "repeat", "done" (main returned), "panicked"
    environ,       \* value of API_KEY in the process environment
    dotenv_file,   \* value of API_KEY in the .env file
    key_result,    \* what get_api_key returned
    key_message,   \* what get_api_key printed
    api_key,       \* main's api_key
    city,          \* main's city (get_city_name's city_name while it runs)
    country_code,  \* main's country_code
    weather_info,  \* main's weather_info: the Result of get_weather_info
    choice,        \* what the last is_repeat call returned
    request,       \* the HTTP requests issued in this loop iteration
    stdout_block,  \* what print_weather_info printed in this loop iteration
    stderr_lines,  \* the lines written to standard error in this iteration
    reader,        \* the input function that ran last, until the fetch
    last_line,     \* what the last read_line of that call returned
    prompts,       \* the prompts that call printed
    prompted,      \* whether any prompt was ever printed
    iterations,    \* loop iterations started
    pairs,         \* city/country pairs collected
    requests,      \* get_weather_info calls made
    repeat_reads,  \* is_repeat calls made
    panic_site     \* where the process panicked

vars == << pc, environ, dotenv_file, key_result, key_message, api_key, city,
           country_code, weather_info, choice, request, stdout_block, stderr_lines, reader,
           last_line, prompts, prompted, iterations, pairs, requests,
           repeat_reads, panic_site >>

-----------------------------------------------------------------------------
(* Bounds *)

MaxLineLen == 2     \* longest line body drawn over LineChars
MaxBlank == 2       \* blank lines one call of a city/country prompt accepts
MaxIter == 2        \* loop iterations
TempScale == 2      \* temperature steps per degree Celsius
Near == 2           \* temperature steps drawn on each side of a band limit

-----------------------------------------------------------------------------
(* Strings *)

\* char::is_whitespace for the characters of the model
WhiteSpace == {" ", "\t", "\r", "\n"}

RECURSIVE TrimStart(_)
TrimStart(s) ==
    IF s = << >> \/ Head(s) \notin WhiteSpace THEN s ELSE TrimStart(Tail(s))

RECURSIVE TrimEnd(_)
TrimEnd(s) ==
    IF s = << >> \/ s[Len(s)] \notin WhiteSpace
    THEN s
    ELSE TrimEnd(SubSeq(s, 1, Len(s) - 1))

\* str::trim: leading and trailing whitespace removed
Trim(s) == TrimEnd(TrimStart(s))

\* String::to_uppercase for the characters of the model
UpperChar(c) ==
    CASE c = "l" -> "L" [] c = "i" -> "I" [] c = "s" -> "S" [] c = "b" -> "B"
      [] c = "o" -> "O" [] c = "n" -> "N" [] c = "y" -> "Y" [] c = "e" -> "E"
      [] OTHER -> c

to_uppercase(s) == [i \in 1..Len(s) |-> UpperChar(s[i])]

-----------------------------------------------------------------------------
(* Presentation: get_temp_emoji, get_description_emoji_and_color,          *)
(* print_weather_info                                                      *)

\* A ColoredString: the formatted text (the value and the emoji appended
\* after it, "" when none is) and the style applied to it.
Colored(value, emoji, style) ==
    [value |-> value, emoji |-> emoji, style |-> style]

\* the f64 literal d.0 in temperature steps
Deg(d) == d * TempScale

\* variant of get_temp_emoji comparing with <= (a limit falls in the lower band)
get_temp_emoji_le(temp) ==
    IF temp <= Deg(0) THEN Colored(temp, "U+1FAE2", "cyan")
    ELSE IF temp <= Deg(10) THEN Colored(temp, "U+1F976", "blue")
    ELSE IF temp <= Deg(20) THEN Colored(temp, "U+1F60A", "bright_green")
    ELSE IF temp <= Deg(30) THEN Colored(temp, "U+1F31E", "yellow")
    ELSE Colored(temp, "U+1F525", "red")

get_temp_emoji(temp) ==
    IF temp < Deg(0) THEN Colored(temp, "U+1FAE2", "cyan")
    ELSE IF temp < Deg(10) THEN Colored(temp, "U+1F976", "blue")
    ELSE IF temp < Deg(20) THEN Colored(temp, "U+1F60A", "bright_green")
    ELSE IF temp < Deg(30) THEN Colored(temp, "U+1F31E", "yellow")
    ELSE Colored(temp, "U+1F525", "red")

\* ASCII case folding of the descriptions of the model
FoldCase(description) ==
    CASE description = "Clear Sky" -> "clear sky"
      [] description = "MIST" -> "mist"
      [] OTHER -> description

\* variant of get_description_emoji_and_color matching without regard to case
get_description_folded(description) ==
    LET key == FoldCase(description)
    IN  CASE key = "clear sky" -> Colored(description, "U+1F304", "bright_yellow")
          [] key = "few clouds" -> Colored(description, "U+1F324 U+FE0F", "bright_blue")
          [] key = "overcast clouds" -> Colored(description, "U+1F324 U+FE0F", "bright_blue")
          [] key = "scattered clouds" -> Colored(description, "U+1F325 U+FE0F", "bright_blue")
          [] key = "broken clouds" -> Colored(description, "U+1F32B U+FE0F", "bright_blue")
          [] key = "shower rain" -> Colored(description, "U+1F327 U+FE0F", "bright_cyan")
          [] key = "light rain" -> Colored(description, "U+1F327 U+FE0F", "bright_cyan")
          [] key = "light snow" -> Colored(description, "U+1F328 U+FE0F", "bright_cyan")
          [] key = "rain" -> Colored(description, "U+1F327 U+FE0F", "bright_cyan")
          [] key = "thunderstorm" -> Colored(description, "U+26C8 U+FE0F", "bright_cyan")
          [] key = "snow" -> Colored(description, "U+1F328 U+FE0F", "bright_cyan")
          [] key = "mist" -> Colored(description, "U+1F32B U+FE0F", "dimmed")
          [] OTHER -> Colored(description, "", "normal")

get_description_emoji_and_color(description) ==
    CASE description = "clear sky" -> Colored(description, "U+1F304", "bright_yellow")
      [] description = "few clouds" -> Colored(description, "U+1F324 U+FE0F", "bright_blue")
      [] description = "overcast clouds" -> Colored(description, "U+1F324 U+FE0F", "bright_blue")
      [] description = "scattered clouds" -> Colored(description, "U+1F325 U+FE0F", "bright_blue")
      [] description = "broken clouds" -> Colored(description, "U+1F32B U+FE0F", "bright_blue")
      [] description = "shower rain" -> Colored(description, "U+1F327 U+FE0F", "bright_cyan")
      [] description = "light rain" -> Colored(description, "U+1F327 U+FE0F", "bright_cyan")
      [] description = "light snow" -> Colored(description, "U+1F328 U+FE0F", "bright_cyan")
      [] description = "rain" -> Colored(description, "U+1F327 U+FE0F", "bright_cyan")
      [] description = "thunderstorm" -> Colored(description, "U+26C8 U+FE0F", "bright_cyan")
      [] description = "snow" -> Colored(description, "U+1F328 U+FE0F", "bright_cyan")
      [] description = "mist" -> Colored(description, "U+1F32B U+FE0F", "dimmed")
      [] OTHER -> Colored(description, "", "normal")

\* print_weather_info: weather[0] is indexed before anything is printed, so
\* an empty weather list panics with nothing printed; otherwise the block
print_weather_info(weather_info_arg) ==
    IF Len(weather_info_arg.weather) = 0
    THEN [panicked |-> TRUE]
    ELSE [ panicked |-> FALSE,
           header |-> Colored(to_uppercase(weather_info_arg.name), "",
                              "bright_white bold"),
           weather |-> get_description_emoji_and_color(
                           weather_info_arg.weather[1].description),
           temperature |-> get_temp_emoji(weather_info_arg.main.temp),
           pressure |-> Colored(weather_info_arg.main.pressure, "", "green bold"),
           humidity |-> Colored(weather_info_arg.main.humidity, "", "green bold"),
           wind_speed |-> Colored(weather_info_arg.wind.speed, "", "green bold") ]

-----------------------------------------------------------------------------
(* Inputs *)

\* line bodies typed at a prompt
LineChars == {" ", "y"}

RECURSIVE SeqsUpTo(_, _)
SeqsUpTo(S, n) ==
    IF n = 0
    THEN {<< >>}
    ELSE LET shorter == SeqsUpTo(S, n - 1)
         IN  shorter \cup {<<c>> \o t : c \in S, t \in {u \in shorter : Len(u) = n - 1}}

Bodies == SeqsUpTo(LineChars, MaxLineLen) \cup { <<"\t", "y", "\r">> }

\* further answers typed at the repeat prompt
ChoiceBodies == { <<"n">>, <<"Y">>, <<"y", "e", "s">>, <<"Y", " ">> }

\* What read_line appends to its buffer: a line with its newline, or what is
\* left before end of input (nothing at all at end of input)
Terminated(bodies) == {b \o <<"\n">> : b \in bodies} \cup bodies

Lines == Terminated(Bodies)
ChoiceLines == Terminated(Bodies \cup ChoiceBodies)

\* The API_KEY variable: unset, set to a value that is not Unicode, or set
Unset == [set |-> FALSE]
NonUnicode == [set |-> TRUE, unicode |-> FALSE]
SetTo(v) == [set |-> TRUE, unicode |-> TRUE, value |-> v]

EnvValues == {Unset, NonUnicode, SetTo(""), SetTo("k1")}
FileValues == {Unset, SetTo("k2")}

\* the environment and the .env file the process starts with
Startups ==
    ({Unset, NonUnicode, SetTo("")} \X FileValues) \cup {<<SetTo("k1"), Unset>>}

\* Responses of the provider that decode into a WeatherResponse
Descriptions ==
    { "clear sky", "few clouds", "overcast clouds", "scattered clouds",
      "broken clouds", "shower rain", "light rain", "light snow", "rain",
      "thunderstorm", "snow", "mist",
      "Clear Sky", "MIST", "haze" }

WeatherLists ==
    {<< >>} \cup {<<[description |-> d]>> : d \in Descriptions}
            \cup {<<[description |-> "mist"], [description |-> "rain"]>>}

\* temperatures at and around the limits of the bands
Temps == {Deg(d) + o : d \in {0, 10, 20, 30}, o \in (0 - Near) .. Near}

Responses ==
    [ weather : WeatherLists,
      main : [temp : Temps, pressure : {1013}, humidity : {60}],
      wind : [speed : {3}],
      name : {<<"l", "i", "s", "b", "o", "n">>} ]

\* reqwest::Error of a failed get or a failed json decode
FetchErrors == {"error sending request", "error decoding response body"}

Ok(v) == [ok |-> TRUE, value |-> v]
Err(e) == [ok |-> FALSE, error |-> e]

-----------------------------------------------------------------------------
(* Credentials: get_api_key and the head of main *)

\* dotenv::dotenv(): a variable of the .env file is set in the environment
\* unless the environment already has it
dotenv(env, file) == IF env.set THEN env ELSE file

\* std::env::var
env_var(env) ==
    IF ~env.set THEN Err("environment variable not found")
    ELSE IF ~env.unicode THEN Err("environment variable was not valid unicode")
    ELSE Ok(env.value)

\* variant of get_api_key that rejects an empty value
get_api_key_nonempty(env) ==
    LET env_api_key == env_var(env)
    IN  IF env_api_key.ok /\ env_api_key.value # ""
        THEN Ok(env_api_key.value)
        ELSE Err("NotPresent")

get_api_key(env) ==
    LET env_api_key == env_var(env)
    IN  IF env_api_key.ok THEN Ok(env_api_key.value) ELSE Err("NotPresent")

\* what get_api_key prints: nothing on the Ok arm, the red message on Err
err_message(env) ==
    IF env_var(env).ok
    THEN << >>
    ELSE << [ error |-> env_var(env).error, uppercased |-> TRUE,
              name |-> "API_KEY", style |-> "red" ] >>

unwrap_or(result, default) == IF result.ok THEN result.value ELSE default

\* variant of main without the check of line 161
is_empty_never(s) == FALSE

is_empty(s) == s = ""

Init ==
    /\ pc = "start"
    /\ \E st \in Startups : environ = st[1] /\ dotenv_file = st[2]
    /\ key_result = << >>
    /\ key_message = << >>
    /\ api_key = ""
    /\ city = << >>
    /\ country_code = << >>
    /\ weather_info = << >>
    /\ choice = << >>
    /\ request = << >>
    /\ stdout_block = << >>
    /\ stderr_lines = << >>
    /\ reader = "none"
    /\ last_line = << >>
    /\ prompts = 0
    /\ prompted = FALSE
    /\ iterations = 0
    /\ pairs = 0
    /\ requests = 0
    /\ repeat_reads = 0
    /\ panic_site = "none"

\* main, lines 160-163: load the key, return when it is empty
MainStart ==
    /\ pc = "start"
    /\ LET env == dotenv(environ, dotenv_file)
           result == get_api_key(env)
           key == unwrap_or(result, "")
       IN  /\ environ' = env
           /\ key_result' = << result >>
           /\ key_message' = err_message(env)
           /\ api_key' = key
           /\ IF is_empty(key)
              THEN pc' = "done" /\ iterations' = iterations
              ELSE pc' = "city" /\ iterations' = iterations + 1
    /\ UNCHANGED << dotenv_file, city, country_code, weather_info, choice,
                    request, stdout_block, stderr_lines, reader, last_line,
                    prompts, prompted, pairs, requests, repeat_reads,
                    panic_site >>

-----------------------------------------------------------------------------
(* Input: get_city_name, get_country_code, is_repeat *)

\* io::stdin().read_line: Ok with what it appended, or Err (input that is
\* not UTF-8), on which unwrap() panics
ReadResults(lines) ==
    {Ok(l) : l \in lines} \cup {Err("stream did not contain valid UTF-8")}

\* the prompts the running call of function f has printed
PromptsOf(f) == IF reader = f THEN prompts ELSE 0

\* variant of the prompt loops that never prompt again
loop_again_never(name) == FALSE

\* the while condition of get_city_name and get_country_code

loop_again(name) == name = << >>

\* One turn of a prompt loop of function f on buffer buf: the prompt is
\* printed, a line is read into the buffer and the buffer is trimmed.
\* trimmed is the buffer after the turn.
PromptTurn(f, buf, r, trimmed) ==
    /\ reader' = f
    /\ prompts' = PromptsOf(f) + 1
    /\ prompted' = TRUE
    /\ IF r.ok
       THEN /\ last_line' = << r.value >>
            /\ trimmed = Trim(buf \o r.value)
            /\ panic_site' = panic_site
       ELSE /\ last_line' = << >>
            /\ trimmed = buf
            /\ panic_site' = f

\* get_city_name, lines 104-114: one turn of its loop; it returns to main
\* when the loop condition fails
get_city_name ==
    /\ pc = "city"
    /\ \E r \in ReadResults(Lines) :
         /\ PromptTurn("get_city_name", city, r, city')
         /\ loop_again(city') => PromptsOf("get_city_name") < MaxBlank
         /\ pc' = IF ~r.ok THEN "panicked"
                  ELSE IF loop_again(city') THEN "city" ELSE "country"
    /\ UNCHANGED << environ, dotenv_file, key_result, key_message, api_key,
                    country_code, weather_info, choice, request, stdout_block,
                    stderr_lines, iterations, pairs, requests, repeat_reads >>

\* get_country_code, lines 116-127
get_country_code ==
    /\ pc = "country"
    /\ \E r \in ReadResults(Lines) :
         /\ PromptTurn("get_country_code", country_code, r, country_code')
         /\ loop_again(country_code') => PromptsOf("get_country_code") < MaxBlank
         /\ pc' = IF ~r.ok THEN "panicked"
                  ELSE IF loop_again(country_code') THEN "country" ELSE "fetch"
         /\ pairs' = IF r.ok /\ ~loop_again(country_code') THEN pairs + 1 ELSE pairs
    /\ UNCHANGED << environ, dotenv_file, key_result, key_message, api_key,
                    city, weather_info, choice, request, stdout_block,
                    stderr_lines, iterations, requests, repeat_reads >>

\* variant of is_repeat that accepts Y too
is_repeat_any_case(line) == Trim(<< >> \o line) \in {<<"y">>, <<"Y">>}

\* is_repeat, lines 129-136, on the line read into the empty buffer choice
is_repeat(line) == Trim(<< >> \o line) = <<"y">>

-----------------------------------------------------------------------------
(* Fetch and the loop of main *)

\* the URL get_weather_info formats, by its parts
Url(city_arg, country_code_arg, api_key_arg) ==
    [ q |-> city_arg \o <<",">> \o country_code_arg,
      appid |-> api_key_arg,
      units |-> "metric" ]

\* get_weather_info, lines 32-43, called at line 169: one blocking GET, whose
\* outcome is the provider's and the network's
get_weather_info ==
    /\ pc = "fetch"
    /\ \E result \in {Ok(resp) : resp \in Responses} \cup {Err(e) : e \in FetchErrors} :
         weather_info' = << result >>
    /\ request' = Append(request, Url(city, country_code, api_key))
    /\ requests' = requests + 1
    /\ pc' = "match"
    /\ reader' = "none"
    /\ last_line' = << >>
    /\ prompts' = 0
    /\ UNCHANGED << environ, dotenv_file, key_result, key_message, api_key,
                    city, country_code, choice, stdout_block, stderr_lines,
                    prompted, iterations, pairs, repeat_reads, panic_site >>

\* main, lines 172-174: the Ok arm
MatchOk ==
    /\ pc = "match"
    /\ weather_info[1].ok
    /\ LET printed == print_weather_info(weather_info[1].value)
       IN  IF printed.panicked
           THEN /\ pc' = "panicked"
                /\ panic_site' = "print_weather_info"
                /\ stdout_block' = stdout_block
           ELSE /\ pc' = "repeat"
                /\ panic_site' = panic_site
                /\ stdout_block' = Append(stdout_block, printed)
    /\ UNCHANGED << environ, dotenv_file, key_result, key_message, api_key,
                    city, country_code, weather_info, choice, request,
                    stderr_lines, reader, last_line, prompts, prompted,
                    iterations, pairs, requests, repeat_reads >>

\* variants of the Err arm: one that leaves the loop, one that fetches again
MatchErr_break ==
    /\ pc = "match"
    /\ ~weather_info[1].ok
    /\ stderr_lines' = Append(stderr_lines, [prefix |-> "Error: ", e |-> weather_info[1].error])
    /\ pc' = "done"
    /\ UNCHANGED << environ, dotenv_file, key_result, key_message, api_key,
                    city, country_code, weather_info, choice, request,
                    stdout_block, reader, last_line, prompts, prompted,
                    iterations, pairs, requests, repeat_reads, panic_site >>

MatchErr_retry ==
    /\ pc = "match"
    /\ ~weather_info[1].ok
    /\ stderr_lines' = Append(stderr_lines, [prefix |-> "Error: ", e |-> weather_info[1].error])
    /\ pc' = IF requests < MaxIter THEN "fetch" ELSE "repeat"
    /\ UNCHANGED << environ, dotenv_file, key_result, key_message, api_key,
                    city, country_code, weather_info, choice, request,
                    stdout_block, reader, last_line, prompts, prompted,
                    iterations, pairs, requests, repeat_reads, panic_site >>

\* main, lines 175-177: the Err arm
MatchErr ==
    /\ pc = "match"
    /\ ~weather_info[1].ok
    /\ stderr_lines' = Append(stderr_lines, [prefix |-> "Error: ", e |-> weather_info[1].error])
    /\ pc' = "repeat"
    /\ UNCHANGED << environ, dotenv_file, key_result, key_message, api_key,
                    city, country_code, weather_info, choice, request,
                    stdout_block, reader, last_line, prompts, prompted,
                    iterations, pairs, requests, repeat_reads, panic_site >>

\* variant of main that leaves the loop on a true choice
loop_break_inverted(choice_arg) == choice_arg

\* main, lines 182-184: whether the loop is left

loop_break(choice_arg) == ~choice_arg

\* main, lines 180-185: is_repeat is called, then the loop is left or its
\* body starts again.  Either way city, country_code and weather_info go out
\* of scope, and the output logs of the iteration are closed.
AskRepeat ==
    /\ pc = "repeat"
    /\ \E r \in ReadResults(ChoiceLines) :
         /\ reader' = "is_repeat"
         /\ prompts' = 1
         /\ prompted' = TRUE
         /\ repeat_reads' = repeat_reads + 1
         /\ IF ~r.ok
            THEN /\ pc' = "panicked"
                 /\ panic_site' = "is_repeat"
                 /\ last_line' = << >>
                 /\ UNCHANGED << choice, iterations >>
            ELSE /\ last_line' = << r.value >>
                 /\ choice' = << is_repeat(r.value) >>
                 /\ panic_site' = panic_site
                 /\ IF loop_break(is_repeat(r.value))
                    THEN /\ pc' = "done"
                         /\ iterations' = iterations
                    ELSE /\ iterations < MaxIter
                         /\ pc' = "city"
                         /\ iterations' = iterations + 1
    /\ city' = << >>
    /\ country_code' = << >>
    /\ weather_info' = << >>
    /\ request' = << >>
    /\ stdout_block' = << >>
    /\ stderr_lines' = << >>
    /\ UNCHANGED << environ, dotenv_file, key_result, key_message, api_key,
                    pairs, requests >>

Next ==
    \/ MainStart
    \/ get_city_name
    \/ get_country_code
    \/ get_weather_info
    \/ MatchOk
    \/ MatchErr
    \/ AskRepeat

Spec == Init /\ [][Next]_vars

-----------------------------------------------------------------------------
(* Properties *)

TypeOK ==
    /\ pc \in {"start", "city", "country", "fetch", "match", "repeat", "done", "panicked"}
    /\ environ \in EnvValues \cup FileValues
    /\ dotenv_file \in FileValues
    /\ Len(key_result) <= 1
    /\ api_key \in {"", "k1", "k2"}
    /\ Len(weather_info) <= 1
    /\ Len(choice) <= 1
    /\ Len(request) <= 1
    /\ prompted \in BOOLEAN
    /\ iterations \in 0..MaxIter
    /\ pairs \in 0..MaxIter
    /\ requests \in 0..MaxIter
    /\ repeat_reads \in 0..MaxIter

Failed == Len(weather_info) = 1 /\ ~weather_info[1].ok
Decoded == Len(weather_info) = 1 /\ weather_info[1].ok

\* C1: a failed fetch, of either kind, writes exactly one error line, prints
\* no weather block and leaves main at the repeat prompt, whose next step is
\* the prompt of is_repeat.
C1_FailedFetchAsksRepeat ==
    [][ /\ (pc = "match" /\ Failed) =>
             /\ pc' = "repeat"
             /\ stderr_lines' = Append(stderr_lines,
                    [prefix |-> "Error: ", e |-> weather_info[1].error])
             /\ stdout_block' = stdout_block
        /\ (pc = "repeat" /\ Failed) =>
             /\ Len(stderr_lines) = 1
             /\ stdout_block = << >>
             /\ reader' = "is_repeat"
             /\ prompts' = 1
             /\ repeat_reads' = repeat_reads + 1
      ]_vars

C1_Witness ==
    /\ pc = "repeat"
    /\ Failed
    /\ weather_info[1].error = "error decoding response body"
    /\ Len(stderr_lines) = 1

\* C2: with API_KEY set neither in the environment nor by the .env file,
\* get_api_key returns Err and main returns at once: no loop iteration, no
\* prompt, no request.
C2_MissingKeyTerminates ==
    (pc # "start" /\ ~environ.set) =>
        /\ key_result = << Err("NotPresent") >>
        /\ pc = "done"
        /\ iterations = 0
        /\ ~prompted
        /\ requests = 0
        /\ request = << >>

C2_Witness ==
    /\ pc = "done"
    /\ ~environ.set
    /\ key_result = << Err("NotPresent") >>
    /\ key_message # << >>

\* C3: is_repeat is called once per loop iteration; the loop body starts
\* again exactly when it returned true, main returns when it returned false,
\* and nothing happens after main has returned.
C3_RepeatDecidesLoop ==
    [][ /\ (pc = "repeat" /\ pc' # "panicked") =>
             /\ reader' = "is_repeat"
             /\ Len(choice') = 1
             /\ repeat_reads' = repeat_reads + 1
             /\ choice'[1] <=> (pc' = "city" /\ iterations' = iterations + 1)
             /\ ~choice'[1] <=> (pc' = "done" /\ iterations' = iterations)
        /\ (pc' = "city" /\ pc # "city") =>
             \/ pc = "start"
             \/ pc = "repeat" /\ choice' = << TRUE >>
        /\ repeat_reads' = IF pc' \in {"city", "country", "fetch", "match", "repeat"}
                              \/ (pc' = "panicked" /\ panic_site' # "is_repeat")
                           THEN iterations' - 1
                           ELSE iterations'
        /\ pc # "done"
      ]_vars

C3_Witness ==
    /\ pc = "city"
    /\ iterations = 2
    /\ reader = "is_repeat"
    /\ choice = << TRUE >>
    /\ repeat_reads = 1

\* C4: each loop iteration issues exactly one request, between the country
\* code and the repeat prompt, so the requests issued equal the city/country
\* pairs collected (less the one about to be issued).
C4_OneRequestPerPair ==
    /\ requests = IF pc = "fetch" THEN pairs - 1 ELSE pairs
    /\ pc \in {"city", "country", "fetch"} => request = << >>
    /\ pc \in {"match", "repeat"} =>
         request = << Url(city, country_code, api_key) >>

C4_Witness ==
    /\ pc = "repeat"
    /\ Failed
    /\ iterations = 2
    /\ requests = 2
    /\ pairs = 2

\* C5: whenever a decoded response reaches the Ok arm, print_weather_info
\* does not fail and main goes on to the repeat prompt.
C5_PresentingReachesRepeat ==
    [][ (pc = "match" /\ Decoded) => pc' = "repeat" ]_vars

\* the bands of the temperature table: limits in degrees, lo included and
\* hi excluded; the first band has no lower and the last no upper limit
Bands ==
    { [has_lo |-> FALSE, lo |-> 0, has_hi |-> TRUE, hi |-> 0,
       emoji |-> "U+1FAE2", style |-> "cyan"],
      [has_lo |-> TRUE, lo |-> 0, has_hi |-> TRUE, hi |-> 10,
       emoji |-> "U+1F976", style |-> "blue"],
      [has_lo |-> TRUE, lo |-> 10, has_hi |-> TRUE, hi |-> 20,
       emoji |-> "U+1F60A", style |-> "bright_green"],
      [has_lo |-> TRUE, lo |-> 20, has_hi |-> TRUE, hi |-> 30,
       emoji |-> "U+1F31E", style |-> "yellow"],
      [has_lo |-> TRUE, lo |-> 30, has_hi |-> FALSE, hi |-> 30,
       emoji |-> "U+1F525", style |-> "red"] }

InBand(t, b) ==
    /\ b.has_lo => t >= Deg(b.lo)
    /\ b.has_hi => t < Deg(b.hi)

\* C6: the temperature line printed carries the emoji and colour of the one
\* half-open band the temperature lies in; 0, 10, 20 and 30 degrees lie in
\* the higher band.
C6_TemperatureBands ==
    Len(stdout_block) = 1 =>
        LET t == weather_info[1].value.main.temp
            line == stdout_block[1].temperature
        IN  /\ line.value = t
            /\ Cardinality({b \in Bands : InBand(t, b)}) = 1
            /\ \A b \in Bands :
                 InBand(t, b) => line.emoji = b.emoji /\ line.style = b.style

C6_Witness ==
    /\ Len(stdout_block) = 1
    /\ weather_info[1].value.main.temp = Deg(10)
    /\ stdout_block[1].temperature = Colored(Deg(10), "U+1F60A", "bright_green")

\* whitespace, then y, then whitespace
IsBareY(line) ==
    \E i \in 1..Len(line) :
        /\ line[i] = "y"
        /\ \A j \in 1..Len(line) : j # i => line[j] \in WhiteSpace

\* C7: is_repeat prompts once and returns true exactly when the line read is
\* "y" with whitespace around it; "Y", "yes", "" and "n" give false.
C7_IsRepeatOnlyY ==
    (reader = "is_repeat" /\ Len(last_line) = 1) =>
        /\ prompts = 1
        /\ choice = << IsBareY(last_line[1]) >>
        /\ last_line[1] \in Terminated({<<"Y">>, <<"y", "e", "s">>, << >>, <<"n">>})
             => choice = << FALSE >>

C7_Witness ==
    /\ reader = "is_repeat"
    /\ last_line = << <<" ", "y", "\n">> >>
    /\ choice = << TRUE >>
    /\ pc = "city"

\* the description table: colour by group, emoji by phrase
TableStyle(d) ==
    IF d = "clear sky" THEN "bright_yellow"
    ELSE IF d \in {"few clouds", "overcast clouds", "scattered clouds", "broken clouds"}
    THEN "bright_blue"
    ELSE IF d \in {"shower rain", "light rain", "rain", "light snow", "snow", "thunderstorm"}
    THEN "bright_cyan"
    ELSE IF d = "mist" THEN "dimmed"
    ELSE "normal"

TableEmoji(d) ==
    IF d = "clear sky" THEN "U+1F304"
    ELSE IF d \in {"few clouds", "overcast clouds"} THEN "U+1F324 U+FE0F"
    ELSE IF d = "scattered clouds" THEN "U+1F325 U+FE0F"
    ELSE IF d \in {"broken clouds", "mist"} THEN "U+1F32B U+FE0F"
    ELSE IF d \in {"shower rain", "light rain", "rain"} THEN "U+1F327 U+FE0F"
    ELSE IF d \in {"light snow", "snow"} THEN "U+1F328 U+FE0F"
    ELSE IF d = "thunderstorm" THEN "U+26C8 U+FE0F"
    ELSE ""

\* C8: the weather line printed carries the colour and emoji of the table for
\* the 12 known phrases, and the bare unstyled description for any other
\* string, a differently-cased known phrase included.
C8_DescriptionTable ==
    Len(stdout_block) = 1 =>
        LET d == weather_info[1].value.weather[1].description
            line == stdout_block[1].weather
        IN  /\ line.value = d
            /\ line.style = TableStyle(d)
            /\ line.emoji = TableEmoji(d)
            /\ d \in {"Clear Sky", "MIST", "haze"} =>
                 line = Colored(d, "", "normal")

C8_Witness ==
    /\ Len(stdout_block) = 1
    /\ weather_info[1].value.weather[1].description = "MIST"
    /\ stdout_block[1].weather = Colored("MIST", "", "normal")

\* t is line without its leading and trailing whitespace
IsTrimOf(t, line) ==
    /\ t = << >> \/ (t[1] \notin WhiteSpace /\ t[Len(t)] \notin WhiteSpace)
    /\ \E a \in 0..Len(line) :
         /\ a + Len(t) <= Len(line)
         /\ SubSeq(line, a + 1, a + Len(t)) = t
         /\ \A k \in 1..Len(line) :
              (k <= a \/ k > a + Len(t)) => line[k] \in WhiteSpace

\* C9: each turn of get_city_name and get_country_code prompts once and reads
\* one line; a line that trims to nothing brings another prompt, any other
\* line is returned trimmed; so the request is made with a non-empty city and
\* a non-empty country code.
C9_PromptsUntilNonEmpty ==
    [][ /\ (pc = "city" /\ pc' # "panicked") =>
             /\ reader' = "get_city_name"
             /\ prompts' = PromptsOf("get_city_name") + 1
             /\ Len(last_line') = 1
             /\ IsTrimOf(city', last_line'[1])
             /\ pc' = IF city' = << >> THEN "city" ELSE "country"
        /\ (pc = "country" /\ pc' # "panicked") =>
             /\ reader' = "get_country_code"
             /\ prompts' = PromptsOf("get_country_code") + 1
             /\ Len(last_line') = 1
             /\ IsTrimOf(country_code', last_line'[1])
             /\ pc' = IF country_code' = << >> THEN "country" ELSE "fetch"
        /\ pc = "fetch" =>
             /\ city # << >>
             /\ country_code # << >>
             /\ request' = << Url(city, country_code, api_key) >>
      ]_vars

C9_Witness ==
    /\ pc = "fetch"
    /\ reader = "get_country_code"
    /\ prompts = 2
    /\ last_line = << <<" ", "y", "\n">> >>
    /\ country_code = << "y" >>
    /\ city = << "y", "y" >>

\* C10, as claimed: a key get_api_key returns is never empty.
C10_ReturnedKeyNonEmpty ==
    (Len(key_result) = 1 /\ key_result[1].ok) => key_result[1].value # ""

\* C10, amended: get_api_key succeeds exactly when API_KEY is set to a
\* Unicode value and returns that value as it is, the empty string included;
\* main returns before its loop on an empty key, so the loop runs with a
\* non-empty key only.
C10_ReturnedKeyIsVariable ==
    Len(key_result) = 1 =>
        /\ key_result[1].ok <=> (environ.set /\ environ.unicode)
        /\ key_result[1].ok => key_result[1].value = environ.value
        /\ api_key = unwrap_or(key_result[1], "")
        /\ api_key = "" <=> (pc = "done" /\ iterations = 0)
        /\ iterations > 0 => api_key # ""

C10_Witness ==
    /\ key_result = << Ok("") >>
    /\ environ = SetTo("")
    /\ pc = "done"
    /\ ~prompted

====
